---- MODULE Spec2Model ----
(***************************************************************************)
(* Root Cause Analysis API: the /analyze pipeline (main.py), the pattern   *)
(* detectors (nlu_analyzer.py, main.py), the narrative client              *)
(* (watsonx_client.py), the repository reference parser (github_client.py) *)
(* and the incident stores (main.py in-memory list, cloudant_client.py).   *)
(*                                                                         *)
(* A Python str is a tuple of one-character strings, so that lower(), the  *)
(* `in` substring test, split(), replace() and slicing are computed.  The  *)
(* fixed literal parts of the template narrative are kept as one chunk     *)
(* each.  Optional[str] is <<>> (None) or <<s>>.  A float is an integer    *)
(* number of hundredths.  An incident id INC-XXXXXXXX is the ordinal of    *)
(* the uuid4 draw that produced it (draws are taken to be distinct).       *)
(*                                                                         *)
(* The regular expressions of extract_code_references are pattern trees    *)
(* run by a backtracking matcher.  The read endpoints (get, list, health,  *)
(* /analyze-log-only) are steps of NextApi; the two extraction methods of  *)
(* NLUAnalyzer, called on a log text of their own, are steps of            *)
(* NextExtract.                                                            *)
(***************************************************************************)
EXTENDS Integers, Sequences, FiniteSets, TLC

\* ---------------------------------------------------------------- bounds
MaxRequests == 2      \* /analyze requests admitted in one run of Spec
MaxInFlight == 1      \* requests suspended in the code-context await at once
MaxHist == 5          \* incidents already stored when SpecHist starts

\* ------------------------------------------------------ program constants
SimilarCap == 5       \* similar[:5] and search_similar_incidents(limit=5)
SimilarWindow == 20   \* incidents_store[-20:]
LogCap == 500         \* request.error_log[:500]
KeywordCap == 10      \* words[:10]
TemplateKeywords == 5 \* nlu_result.get('keywords', [])[:5]
QuickKeywords == 5    \* words[:5] and result.get("keywords", [])[:5]

\* ----------------------------------------------------------- Python str
UpperChars == <<"A","B","C","D","E","F","G","H","I","J","K","L","M",
                "N","O","P","Q","R","S","T","U","V","W","X","Y","Z">>
LowerChars == <<"a","b","c","d","e","f","g","h","i","j","k","l","m",
                "n","o","p","q","r","s","t","u","v","w","x","y","z">>

LowerChar(c) ==
    IF \E i \in 1..26 : UpperChars[i] = c
    THEN LowerChars[CHOOSE i \in 1..26 : UpperChars[i] = c]
    ELSE c

\* str.lower()
lower(s) == [i \in 1..Len(s) |-> LowerChar(s[i])]

\* sub in s  (substring test)
Contains(sub, s) ==
    \E i \in 0..(Len(s) - Len(sub)) : SubSeq(s, i + 1, i + Len(sub)) = sub

\* s[:n] for n >= 0
Take(s, n) == SubSeq(s, 1, IF n < Len(s) THEN n ELSE Len(s))

\* s[-n:] for n > 0
LastN(s, n) == SubSeq(s, IF Len(s) > n THEN Len(s) - n + 1 ELSE 1, Len(s))

IsSpace(c) == c \in {" ", "\t", "\n"}

\* str.split(): the maximal runs of non-whitespace characters, in order
RECURSIVE SplitFrom(_, _, _)
SplitFrom(s, i, word) ==
    IF i > Len(s)
    THEN IF word = <<>> THEN <<>> ELSE <<word>>
    ELSE IF IsSpace(s[i])
         THEN (IF word = <<>> THEN <<>> ELSE <<word>>) \o SplitFrom(s, i + 1, <<>>)
         ELSE SplitFrom(s, i + 1, Append(word, s[i]))

split(s) == SplitFrom(s, 1, <<>>)

\* str.split(sep) for a one-character separator: empty fields are kept
RECURSIVE SplitOnFrom(_, _, _, _)
SplitOnFrom(s, sep, i, field) ==
    IF i > Len(s)
    THEN <<field>>
    ELSE IF s[i] = sep
         THEN <<field>> \o SplitOnFrom(s, sep, i + 1, <<>>)
         ELSE SplitOnFrom(s, sep, i + 1, Append(field, s[i]))

SplitOn(s, sep) == SplitOnFrom(s, sep, 1, <<>>)

\* str.replace(old, ""): every occurrence, found left to right, is removed
RECURSIVE RemoveFrom(_, _, _)
RemoveFrom(s, old, i) ==
    IF i > Len(s)
    THEN <<>>
    ELSE IF i + Len(old) - 1 <= Len(s) /\ SubSeq(s, i, i + Len(old) - 1) = old
         THEN RemoveFrom(s, old, i + Len(old))
         ELSE <<s[i]>> \o RemoveFrom(s, old, i + 1)

Remove(s, old) == RemoveFrom(s, old, 1)

\* str.rstrip("/")
RECURSIVE RStripSlash(_)
RStripSlash(s) ==
    IF s # <<>> /\ s[Len(s)] = "/" THEN RStripSlash(SubSeq(s, 1, Len(s) - 1)) ELSE s

\* sep.join(parts)
RECURSIVE Join(_, _)
Join(parts, sep) ==
    IF parts = <<>> THEN <<>>
    ELSE IF Len(parts) = 1 THEN parts[1]
    ELSE parts[1] \o sep \o Join(Tail(parts), sep)

\* str(list of str): "['a', 'b']"
Quote(s) == <<"'">> \o s \o <<"'">>
Repr(list) == <<"[">> \o Join([i \in 1..Len(list) |-> Quote(list[i])], <<",", " ">>) \o <<"]">>

\* dict.get(key, default) on a record
Get(d, key, default) == IF key \in DOMAIN d THEN d[key] ELSE default

\* Optional[str]
None == <<>>
Some(s) == <<s>>
Truthy(opt) == opt # None /\ opt[1] # <<>>

\* ------------------------------------------------------- pattern detectors
\* nlu_analyzer.py: error_indicators
error_indicators == <<
    <<"E","x","c","e","p","t","i","o","n">>,
    <<"E","r","r","o","r">>,
    <<"F","a","i","l","e","d">>,
    <<"T","i","m","e","o","u","t">>,
    <<"N","u","l","l","P","o","i","n","t","e","r">>,
    <<"O","u","t","O","f","M","e","m","o","r","y">>,
    <<"C","o","n","n","e","c","t","i","o","n"," ","r","e","f","u","s","e","d">>,
    <<"4","0","4">>,
    <<"5","0","0">>,
    <<"5","0","3">>,
    <<"F","A","T","A","L">>,
    <<"C","R","I","T","I","C","A","L">>,
    <<"T","y","p","e","E","r","r","o","r">>,
    <<"V","a","l","u","e","E","r","r","o","r">>,
    <<"K","e","y","E","r","r","o","r">>,
    <<"A","t","t","r","i","b","u","t","e","E","r","r","o","r">>,
    <<"I","n","d","e","x","E","r","r","o","r">>,
    <<"I","m","p","o","r","t","E","r","r","o","r">>,
    <<"M","o","d","u","l","e","N","o","t","F","o","u","n","d","E","r","r","o","r">> >>

\* main.py: the literal list of the /analyze fallback
basic_patterns == <<
    <<"E","x","c","e","p","t","i","o","n">>,
    <<"E","r","r","o","r">>,
    <<"F","a","i","l","e","d">>,
    <<"T","i","m","e","o","u","t">>,
    <<"5","0","0">>,
    <<"4","0","4">> >>

\* a faulty variant of DetectIn: the text is searched in the case it has
DetectIn_exact_case(indicators, log_text) ==
    SelectSeq(indicators, LAMBDA ind : Contains(ind, log_text))

\* for indicator in indicators: if indicator.lower() in log_text.lower(): append
DetectIn(indicators, log_text) ==
    SelectSeq(indicators, LAMBDA ind : Contains(lower(ind), lower(log_text)))

\* NLUAnalyzer._extract_error_patterns
_extract_error_patterns(log_text) == DetectIn(error_indicators, log_text)

\* ------------------------------------------------- Python re (backtracking)
\* character classes of the patterns of extract_code_references, on the
\* characters the logs are written in
UpperSet == {UpperChars[i] : i \in 1..26}
LowerSet == {LowerChars[i] : i \in 1..26}
DigitSet == {"0", "1", "2", "3", "4", "5", "6", "7", "8", "9"}
AlnumSet == UpperSet \cup LowerSet \cup DigitSet
WordSet == AlnumSet \cup {"_"}
SpaceSet == {" ", "\t", "\n"}

\* pattern nodes; the patterns repeat nothing but a character class
Chr(set) == [t |-> "in", set |-> set]
NotChr(set) == [t |-> "notin", set |-> set]
Cat(items) == [t |-> "cat", items |-> items]
Alt(items) == [t |-> "alt", items |-> items]
Star(class) == [t |-> "star", r |-> class]
Plus(class) == Cat(<<class, Star(class)>>)
Opt(r) == [t |-> "opt", r |-> r]
Grp(n, r) == [t |-> "group", n |-> n, r |-> r]
WordBoundary == [t |-> "b"]
Lit(s) == Cat([i \in 1..Len(s) |-> Chr({s[i]})])

NoGroups == [n \in 1..4 |-> None]

IsWordAt(s, i) == i >= 1 /\ i <= Len(s) /\ s[i] \in WordSet

Accepts(class, c) == IF class.t = "in" THEN c \in class.set ELSE c \notin class.set

\* the length of the longest run of characters of the class from position i
RunLength(class, s, i) ==
    CHOOSE n \in 0..(Len(s) - i + 1) :
        /\ \A k \in 0..(n - 1) : Accepts(class, s[i + k])
        /\ (i + n <= Len(s) => ~Accepts(class, s[i + n]))

\* the ways pattern re matches s from position i, in the order in which the
\* backtracking matcher tries them: the longest repetition first, an optional
\* part before its absence, alternatives left to right.  Each way is the
\* position after the match and the text of the groups it closed.
RECURSIVE Match(_, _, _, _)
RECURSIVE MatchEach(_, _, _, _, _)
RECURSIVE MatchSeq(_, _, _, _)
RECURSIVE MatchAlt(_, _, _, _, _)

Match(re, s, i, groups) ==
    LET here == <<[pos |-> i, groups |-> groups]>>
    IN CASE re.t \in {"in", "notin"} ->
              IF i <= Len(s) /\ Accepts(re, s[i])
              THEN <<[pos |-> i + 1, groups |-> groups]>> ELSE <<>>
         [] re.t = "b" ->
              IF IsWordAt(s, i - 1) # IsWordAt(s, i) THEN here ELSE <<>>
         [] re.t = "cat" -> MatchSeq(re.items, 1, s, here)
         [] re.t = "alt" -> MatchAlt(re.items, 1, s, i, groups)
         [] re.t = "star" ->
              LET run == RunLength(re.r, s, i)
              IN [k \in 1..(run + 1) |-> [pos |-> i + run + 1 - k, groups |-> groups]]
         [] re.t = "opt" -> Match(re.r, s, i, groups) \o here
         [] re.t = "group" ->
              LET inner == Match(re.r, s, i, groups)
              IN [k \in 1..Len(inner) |->
                    [pos |-> inner[k].pos,
                     groups |-> [inner[k].groups EXCEPT
                                   ![re.n] = Some(SubSeq(s, i, inner[k].pos - 1))]]]

\* re matched after each of ways[lo..hi], the results in the order of the ways
MatchEach(re, s, ways, lo, hi) ==
    IF lo > hi THEN <<>>
    ELSE IF lo = hi THEN Match(re, s, ways[lo].pos, ways[lo].groups)
    ELSE LET mid == (lo + hi) \div 2
         IN MatchEach(re, s, ways, lo, mid) \o MatchEach(re, s, ways, mid + 1, hi)

\* items[k], items[k+1], ... matched after each of the ways in `ways`
MatchSeq(items, k, s, ways) ==
    IF k > Len(items) \/ ways = <<>> THEN ways
    ELSE MatchSeq(items, k + 1, s, MatchEach(items[k], s, ways, 1, Len(ways)))

MatchAlt(items, k, s, i, groups) ==
    IF k > Len(items) THEN <<>>
    ELSE Match(items[k], s, i, groups) \o MatchAlt(items, k + 1, s, i, groups)

\* re.finditer(pattern, s): the leftmost matches, none overlapping another,
\* each as the groups of the first way the matcher finds (no pattern here
\* matches the empty string)
RECURSIVE FindIterFrom(_, _, _)
FindIterFrom(re, s, i) ==
    LET starts == {j \in i..Len(s) : Match(re, s, j, NoGroups) # <<>>}
    IN IF starts = {} THEN <<>>
       ELSE LET start == CHOOSE j \in starts : \A other \in starts : j <= other
                first == Match(re, s, start, NoGroups)[1]
            IN <<first.groups>> \o FindIterFrom(re, s, first.pos)

finditer(re, s) == FindIterFrom(re, s, 1)

\* --------------------------------------------------------- code references
RefCap == 10          \* [:10] of the four lists

\* r'at\s+([\w\.]+)\.([\w]+)\(([\w]+\.java):(\d+)\)'
java_pattern ==
    Cat(<<Lit(<<"a","t">>), Plus(Chr(SpaceSet)),
          Grp(1, Plus(Chr(WordSet \cup {"."}))), Chr({"."}),
          Grp(2, Plus(Chr(WordSet))), Chr({"("}),
          Grp(3, Cat(<<Plus(Chr(WordSet)), Lit(<<".","j","a","v","a">>)>>)), Chr({":"}),
          Grp(4, Plus(Chr(DigitSet))), Chr({")"})>>)

\* r'File\s+"([^"]+\.py)",\s+line\s+(\d+),\s+in\s+(\w+)'
python_pattern ==
    Cat(<<Lit(<<"F","i","l","e">>), Plus(Chr(SpaceSet)), Chr({"\""}),
          Grp(1, Cat(<<Plus(NotChr({"\""})), Lit(<<".","p","y">>)>>)),
          Lit(<<"\"", ",">>), Plus(Chr(SpaceSet)), Lit(<<"l","i","n","e">>),
          Plus(Chr(SpaceSet)), Grp(2, Plus(Chr(DigitSet))), Chr({","}),
          Plus(Chr(SpaceSet)), Lit(<<"i","n">>), Plus(Chr(SpaceSet)),
          Grp(3, Plus(Chr(WordSet)))>>)

\* r'at\s+(\w+)?\s*\(?([^\s\)]+\.(js|ts|tsx)):(\d+):\d+\)?'
js_pattern ==
    Cat(<<Lit(<<"a","t">>), Plus(Chr(SpaceSet)),
          Opt(Grp(1, Plus(Chr(WordSet)))), Star(Chr(SpaceSet)), Opt(Chr({"("})),
          Grp(2, Cat(<<Plus(NotChr(SpaceSet \cup {")"})), Chr({"."}),
                       Grp(3, Alt(<<Lit(<<"j","s">>), Lit(<<"t","s">>),
                                    Lit(<<"t","s","x">>)>>))>>)),
          Chr({":"}), Grp(4, Plus(Chr(DigitSet))), Chr({":"}), Plus(Chr(DigitSet)),
          Opt(Chr({")"}))>>)

\* r'\b([A-Z][a-zA-Z0-9]+)\.([a-z][a-zA-Z0-9]+)\b'
class_method_pattern ==
    Cat(<<WordBoundary,
          Grp(1, Cat(<<Chr(UpperSet), Plus(Chr(AlnumSet))>>)), Chr({"."}),
          Grp(2, Cat(<<Chr(LowerSet), Plus(Chr(AlnumSet))>>)),
          WordBoundary>>)

\* r'\b([\w\-]+\.(java|py|js|ts|tsx|go|rb|cpp|c|rs)):(\d+)\b'
file_line_pattern ==
    Cat(<<WordBoundary,
          Grp(1, Cat(<<Plus(Chr(WordSet \cup {"-"})), Chr({"."}),
                       Grp(2, Alt(<<Lit(<<"j","a","v","a">>), Lit(<<"p","y">>),
                                    Lit(<<"j","s">>), Lit(<<"t","s">>),
                                    Lit(<<"t","s","x">>), Lit(<<"g","o">>),
                                    Lit(<<"r","b">>), Lit(<<"c","p","p">>),
                                    Lit(<<"c">>), Lit(<<"r","s">>)>>))>>)),
          Chr({":"}), Grp(3, Plus(Chr(DigitSet))), WordBoundary>>)

\* x in list
In(x, list) == \E i \in 1..Len(list) : list[i] = x

\* if x not in list: list.append(x)
AddUnique(list, x) == IF In(x, list) THEN list ELSE Append(list, x)

\* s.split(sep)[-1]
LastField(s, sep) == LET fields == SplitOn(s, sep) IN fields[Len(fields)]

\* file_path.split('/')[-1].split('\\')[-1]
Basename(file_path) == LastField(LastField(file_path, "/"), "\\")

\* the body of the loop over the matches of each grammar
JavaReference(references, match) ==
    LET class_name == LastField(match[1][1], ".")
        method == match[2][1]
        file == match[3][1]
    IN [files |-> AddUnique(references.files, file),
        classes |-> AddUnique(references.classes, class_name),
        methods |-> AddUnique(references.methods, method),
        search_terms |-> Append(references.search_terms, class_name \o <<" ">> \o method)]

PythonReference(references, match) ==
    LET file == Basename(match[1][1])
        method == match[3][1]
    IN [references EXCEPT
          !.files = AddUnique(@, file),
          !.methods = IF method # <<"<","m","o","d","u","l","e",">">>
                      THEN AddUnique(@, method) ELSE @,
          !.search_terms = Append(@, file \o <<" ">> \o method)]

JsReference(references, match) ==
    LET method == IF Truthy(match[1]) THEN match[1][1] ELSE <<>>
        file == Basename(match[2][1])
    IN [references EXCEPT
          !.files = AddUnique(@, file),
          !.methods = IF method # <<>> THEN AddUnique(@, method) ELSE @,
          !.search_terms = IF method # <<>>
                           THEN Append(@, file \o <<" ">> \o method)
                           ELSE Append(@, file)]

ClassMethodReference(references, match) ==
    LET class_name == match[1][1]
        method == match[2][1]
    IN [references EXCEPT
          !.classes = AddUnique(@, class_name),
          !.methods = AddUnique(@, method),
          !.search_terms = Append(@, class_name \o <<" ">> \o method)]

FileLineReference(references, match) ==
    LET file == match[1][1]
    IN IF In(file, references.files) THEN references
       ELSE [references EXCEPT !.files = Append(@, file),
                               !.search_terms = Append(@, file)]

\* for match in re.finditer(pattern, log_text): ...
RECURSIVE ForEachMatch(_, _, _, _)
ForEachMatch(grammar, matches, k, references) ==
    IF k > Len(matches) THEN references
    ELSE ForEachMatch(grammar, matches, k + 1,
             CASE grammar = "java" -> JavaReference(references, matches[k])
               [] grammar = "python" -> PythonReference(references, matches[k])
               [] grammar = "js" -> JsReference(references, matches[k])
               [] grammar = "class_method" -> ClassMethodReference(references, matches[k])
               [] grammar = "file_line" -> FileLineReference(references, matches[k]))

\* list(dict.fromkeys(list)): the first occurrence of each entry, in order
RECURSIVE FromKeys(_, _, _)
FromKeys(list, k, kept) ==
    IF k > Len(list) THEN kept
    ELSE FromKeys(list, k + 1, AddUnique(kept, list[k]))

\* a faulty variant of DedupCap: the lists are returned as collected
DedupCap_off(list) == list

\* list(dict.fromkeys(list))[:10]
DedupCap(list) == Take(FromKeys(list, 1, <<>>), RefCap)

\* NLUAnalyzer.extract_code_references
extract_code_references(log_text) ==
    LET empty == [files |-> <<>>, classes |-> <<>>, methods |-> <<>>, search_terms |-> <<>>]
        java == ForEachMatch("java", finditer(java_pattern, log_text), 1, empty)
        python == ForEachMatch("python", finditer(python_pattern, log_text), 1, java)
        js == ForEachMatch("js", finditer(js_pattern, log_text), 1, python)
        class_method == ForEachMatch("class_method",
                                     finditer(class_method_pattern, log_text), 1, js)
        references == ForEachMatch("file_line",
                                   finditer(file_line_pattern, log_text), 1, class_method)
    IN [files |-> DedupCap(references.files),
        classes |-> DedupCap(references.classes),
        methods |-> DedupCap(references.methods),
        search_terms |-> DedupCap(references.search_terms)]

\* NLUAnalyzer._process_entities
_process_entities(entities) ==
    [i \in 1..Len(entities) |->
        [type |-> Get(entities[i], "type", None),
         text |-> Get(entities[i], "text", None),
         relevance |-> Get(entities[i], "relevance", None),
         confidence |-> Get(entities[i], "confidence", None)]]

\* NLUAnalyzer._process_keywords
_process_keywords(keywords) ==
    [i \in 1..Len(keywords) |->
        [text |-> Get(keywords[i], "text", None),
         relevance |-> Get(keywords[i], "relevance", None),
         sentiment |-> IF "sentiment" \in DOMAIN keywords[i]
                       THEN Get(keywords[i].sentiment, "label", None)
                       ELSE None]]

\* NLUAnalyzer.analyze_error_log; call is the outcome of self.nlu.analyze(...):
\* [raises |-> TRUE] or [raises |-> FALSE, result |-> the service's response].
\* The whole body is inside the try, so a raising call returns only {"error": ...}.
\* (code_references and raw_analysis are carried by no later step and are left out.)
analyze_error_log(log_text, call) ==
    IF call.raises
    THEN [error |-> <<"nlu call failed">>]
    ELSE [entities |-> _process_entities(Get(call.result, "entities", <<>>)),
          keywords |-> _process_keywords(Get(call.result, "keywords", <<>>)),
          categories |-> Get(call.result, "categories", <<>>),
          error_patterns |-> _extract_error_patterns(log_text)]

\* main.py step 1, else branch: the fallback without NLU
FallbackNlu(error_log) ==
    LET words == split(error_log) IN
    [keywords |-> [i \in 1..Len(Take(words, KeywordCap)) |-> [text |-> words[i]]],
     error_patterns |-> DetectIn(basic_patterns, error_log),
     categories |-> <<>>,
     entities |-> <<>>]

\* ------------------------------------------------------------- narrative
Critical == <<"C","r","i","t","i","c","a","l">>
High == <<"H","i","g","h">>
Low == <<"L","o","w">>
Medium == <<"M","e","d","i","u","m">>
Unknown == <<"U","n","k","n","o","w","n">>

\* WatsonxClient.analyze_root_cause; call is the outcome of self.model.generate:
\* [raises |-> TRUE] or [raises |-> FALSE, generated_text |-> text].  The prompt
\* only feeds the external model, whose answer is the nondeterministic call.
watsonx_analyze_root_cause(error_info, code_context, incident_type, call) ==
    IF call.raises
    THEN [error |-> <<"generate failed">>,
          status |-> <<"failed">>,
          severity |-> Unknown,
          confidence |-> 0]
    ELSE LET generated_text == call.generated_text
             severity == IF Contains(Critical, generated_text) THEN Critical
                         ELSE IF Contains(High, generated_text) THEN High
                         ELSE IF Contains(Low, generated_text) THEN Low
                         ELSE Medium
             confidence == IF Contains(Critical, generated_text) THEN 85
                           ELSE IF Contains(High, generated_text) THEN 75
                           ELSE IF Contains(Low, generated_text) THEN 60
                           ELSE 50
         IN [analysis |-> generated_text,
             severity |-> severity,
             confidence |-> confidence,
             model_used |-> <<"ibm/granite-3-8b-instruct">>,
             status |-> <<"success">>]

\* main.py step 3, else branch: the f-string of the fallback analysis
TemplateNarrative(nlu_result) ==
    LET patterns == Get(nlu_result, "error_patterns", <<>>)
        kws == Take(Get(nlu_result, "keywords", <<>>), TemplateKeywords)
        keywords == [i \in 1..Len(kws) |-> kws[i].text]
    IN <<"\nProbable Root Cause: Based on error patterns ">> \o Repr(patterns)
       \o <<", there appears to be an issue in the application.\n\nEvidence: Keywords found - ">>
       \o Repr(keywords)
       \o <<"\n\nSuggested Fix: Review the code related to the error patterns and add proper error handling.\n\nSeverity: Medium\nConfidence: 50%\n">>

\* a faulty variant of Narrative: the else branch of step 3 is lost, so
\* analysis_text keeps its initial ""
Narrative_no_template(nlu_result, code_context, incident_type, wx_configured, call) ==
    IF wx_configured
    THEN LET analysis_result ==
                 watsonx_analyze_root_cause(nlu_result, code_context, incident_type, call)
         IN [analysis_text |-> Get(analysis_result, "analysis", <<>>),
             severity |-> Get(analysis_result, "severity", Medium),
             confidence |-> Get(analysis_result, "confidence", 50)]
    ELSE [analysis_text |-> <<>>,
          severity |-> Medium,
          confidence |-> 50]

\* main.py step 3: [analysis_text, severity, confidence]
Narrative(nlu_result, code_context, incident_type, wx_configured, call) ==
    IF wx_configured
    THEN LET analysis_result ==
                 watsonx_analyze_root_cause(nlu_result, code_context, incident_type, call)
         IN [analysis_text |-> Get(analysis_result, "analysis", <<>>),
             severity |-> Get(analysis_result, "severity", Medium),
             confidence |-> Get(analysis_result, "confidence", 50)]
    ELSE [analysis_text |-> TemplateNarrative(nlu_result),
          severity |-> Medium,
          confidence |-> 50]

\* ------------------------------------------------- repository reference
HttpsPrefix == <<"h","t","t","p","s",":","/","/","g","i","t","h","u","b",".","c","o","m","/">>
HttpPrefix == <<"h","t","t","p",":","/","/","g","i","t","h","u","b",".","c","o","m","/">>
DotGit == <<".","g","i","t">>

\* GitHubClient._parse_repo_url: [ok |-> TRUE, owner, repo], or [ok |-> FALSE]
\* where the code raises ValueError
_parse_repo_url(repo_url) ==
    LET url == Remove(RStripSlash(Remove(Remove(repo_url, HttpsPrefix), HttpPrefix)), DotGit)
        parts == SplitOn(url, "/")
    IN IF Len(parts) >= 2
       THEN [ok |-> TRUE, owner |-> parts[1], repo |-> parts[2]]
       ELSE [ok |-> FALSE]

\* ------------------------------------------------------------ correlation
Elems(seq) == {seq[i] : i \in 1..Len(seq)}

\* incident.get("nlu_analysis", {}).get("error_patterns", [])
PatternsOf(incident) == Get(Get(incident, "nlu_analysis", [none |-> TRUE]), "error_patterns", <<>>)

\* a faulty variant of FirstMatch: the membership test `pattern in
\* incident_patterns` is lost, so the first query pattern always matches
FirstMatch_untested(error_patterns, incident_patterns) ==
    IF error_patterns # <<>> THEN 1 ELSE 0

\* for pattern in error_patterns: if pattern in incident_patterns: ...; break
\* -- the position of the first such pattern, 0 when there is none
FirstMatch(error_patterns, incident_patterns) ==
    IF \E i \in 1..Len(error_patterns) : error_patterns[i] \in Elems(incident_patterns)
    THEN CHOOSE i \in 1..Len(error_patterns) :
            /\ error_patterns[i] \in Elems(incident_patterns)
            /\ \A j \in 1..(i - 1) : error_patterns[j] \notin Elems(incident_patterns)
    ELSE 0

\* a faulty variant of _find_similar_incidents: the final slice [:5] is lost
_find_similar_incidents_uncapped(store, error_patterns) ==
    LET window == LastN(store, SimilarWindow)
        overlapping == SelectSeq(window,
                          LAMBDA incident : FirstMatch(error_patterns, PatternsOf(incident)) # 0)
    IN [i \in 1..Len(overlapping) |->
          [id |-> overlapping[i].incident_id,
           severity |-> overlapping[i].severity,
           created_at |-> overlapping[i].timestamp,
           matching_pattern |->
               error_patterns[FirstMatch(error_patterns, PatternsOf(overlapping[i]))]]]

\* a faulty variant of _find_similar_incidents: matching_pattern is the head of
\* the query list, whether or not the incident has it
_find_similar_incidents_head(store, error_patterns) ==
    LET window == LastN(store, SimilarWindow)
        overlapping == SelectSeq(window,
                          LAMBDA incident : FirstMatch(error_patterns, PatternsOf(incident)) # 0)
    IN Take([i \in 1..Len(overlapping) |->
               [id |-> overlapping[i].incident_id,
                severity |-> overlapping[i].severity,
                created_at |-> overlapping[i].timestamp,
                matching_pattern |-> error_patterns[1]]], SimilarCap)

\* main.py _find_similar_incidents, run on the store as it is at the call
_find_similar_incidents(store, error_patterns) ==
    LET window == LastN(store, SimilarWindow)
        overlapping == SelectSeq(window,
                          LAMBDA incident : FirstMatch(error_patterns, PatternsOf(incident)) # 0)
        similar == [i \in 1..Len(overlapping) |->
                      [id |-> overlapping[i].incident_id,
                       severity |-> overlapping[i].severity,
                       created_at |-> overlapping[i].timestamp,
                       matching_pattern |->
                           error_patterns[FirstMatch(error_patterns, PatternsOf(overlapping[i]))]]]
    IN Take(similar, SimilarCap)

\* The database's answer to post_find(selector = {"nlu_analysis.error_patterns":
\* {"$elemMatch": {"$in": error_patterns}}}, limit): the first `limit` documents,
\* in the database's own order, that have the field with an element among
\* error_patterns
post_find(docs, error_patterns, limit) ==
    Take(SelectSeq(docs, LAMBDA doc : Elems(PatternsOf(doc)) \cap Elems(error_patterns) # {}),
         limit)

\* CloudantClient.search_similar_incidents; call_raises is the outcome of post_find
search_similar_incidents(available, docs, error_patterns, limit, call_raises) ==
    IF ~available \/ error_patterns = <<>>
    THEN <<>>
    ELSE IF call_raises
    THEN <<>>
    ELSE LET found == post_find(docs, error_patterns, limit) IN
         [i \in 1..Len(found) |->
            [id |-> found[i].incident_id,
             severity |-> Get(found[i], "severity", Unknown),
             created_at |-> Get(found[i], "timestamp", <<>>),
             matching_pattern |->
                 IF FirstMatch(error_patterns, PatternsOf(found[i])) # 0
                 THEN error_patterns[FirstMatch(error_patterns, PatternsOf(found[i]))]
                 ELSE error_patterns[1]]]

\* The database after post_document(document): the document's _id is generated
\* by the database, so its place in the database's order is any place
InsertAt(docs, pos, doc) == SubSeq(docs, 1, pos - 1) \o <<doc>> \o SubSeq(docs, pos, Len(docs))

\* CloudantClient.save_incident: the database afterwards.  An exception of
\* post_document is caught and printed, and the incident id is returned either way
save_incident(available, docs, incident, call_raises, pos) ==
    IF ~available THEN docs
    ELSE IF call_raises THEN docs
    ELSE InsertAt(docs, pos, incident)

\* ----------------------------------------------------------------- inputs
LogTimeout == <<"d","b"," ","T","i","m","e","o","u","t"," ","5","0","0">>
LogKeyError == <<"5","0","0"," ","K","e","y","E","r","r","o","r">>
LogFatal == <<"F","A","T","A","L"," ","4","0","4">>
LogQuiet == <<"o","k">>
Logs == {LogTimeout, LogKeyError, LogFatal, LogQuiet}
\* the logs of the requests served before SpecHist starts
HistLogs == {LogTimeout, LogFatal}

GoodRepoUrl == <<"h","t","t","p","s",":","/","/","g","i","t","h","u","b",".","c","o","m","/","o","/","r",".","g","i","t">>
BadRepoUrl == <<"r","e","p","o">>
RepoUrls == {None, Some(GoodRepoUrl), Some(BadRepoUrl)}
Pats == {None, Some(<<"t","o","k">>)}

\* what the enrichment service answers for a text (one answer per text)
NluAnswer(log_text) ==
    LET words == split(log_text) IN
    [entities |-> <<>>,
     keywords |-> [i \in 1..Len(words) |-> [text |-> words[i], relevance |-> 50]],
     categories |-> <<>>]
NluCalls(log_text) == {[raises |-> TRUE], [raises |-> FALSE, result |-> NluAnswer(log_text)]}

\* what the narrative model generates
GeneratedTexts == {<<>>, <<"L","o","w"," ","r","i","s","k">>, Critical \o <<" ">> \o High}
WxCalls == {[raises |-> TRUE]} \cup {[raises |-> FALSE, generated_text |-> t] : t \in GeneratedTexts}

\* what search_and_get_context ends with once the reference parsed: an exception
\* of the HTTP client, or the context text ("" when nothing was found)
GithubCalls == {[raises |-> TRUE],
                [raises |-> FALSE, context |-> <<>>],
                [raises |-> FALSE, context |-> <<"// File: a.py\n...">>]}

Outcome(call) == IF call.raises THEN "raised" ELSE "ok"

\* ------------------------------------------------------------------ state
VARIABLES
    nlu_analyzer,       \* main.py global: TRUE when NLUAnalyzer() was constructed
    watsonx_client,     \* main.py global: TRUE when WatsonxClient() was constructed
    cloudant_available, \* cloudant_client and cloudant_client.available
    incidents_store,    \* main.py global list
    cloudant_docs,      \* the documents of the "incidents" database, in its order
    uuid_draws,         \* uuid4 values drawn so far
    budget,             \* /analyze requests still admitted (bound of the run)
    inflight,           \* /analyze handlers suspended in the await of step 2
    response,           \* what the last finished /analyze handler returned
    served,             \* that request, and how each external call of it ended
    reply,              \* what the handler of another endpoint returned in the last step
    extracted           \* a log text, and what the extraction methods returned on it

vars == <<nlu_analyzer, watsonx_client, cloudant_available, incidents_store,
          cloudant_docs, uuid_draws, budget, inflight, response, served, reply,
          extracted>>

\* GitHubClient() needs no configuration: startup always constructs it
github_client == TRUE

\* main.py step 1
Step1(error_log, nlu_call) ==
    IF nlu_analyzer THEN analyze_error_log(error_log, nlu_call) ELSE FallbackNlu(error_log)

\* a faulty variant of CallsGithub: the token is not asked for
CallsGithub_no_token(request, nlu_result) ==
    /\ Truthy(request.repo_url) /\ github_client
    /\ Get(nlu_result, "error_patterns", <<>>) # <<>>

\* main.py step 2, the condition under which search_and_get_context is called
CallsGithub(request, nlu_result) ==
    /\ Truthy(request.repo_url) /\ Truthy(request.github_pat) /\ github_client
    /\ Get(nlu_result, "error_patterns", <<>>) # <<>>

\* main.py step 4: incident_data
IncidentData(incident_id, timestamp, request, narrative, nlu_result) ==
    [incident_id |-> incident_id,
     timestamp |-> timestamp,
     error_log |-> Take(request.error_log, LogCap),
     repo_url |-> request.repo_url,
     incident_type |-> request.incident_type,
     severity |-> narrative.severity,
     confidence |-> narrative.confidence,
     nlu_analysis |-> nlu_result,
     root_cause_analysis |-> narrative.analysis_text]

\* main.py AnalyzeResponse(...)
AnalyzeResponse(incident_id, narrative, nlu_result, similar) ==
    [incident_id |-> incident_id,
     severity |-> narrative.severity,
     root_cause |-> narrative.analysis_text,
     evidence |-> Get(nlu_result, "error_patterns", <<>>),
     suggested_fix |-> <<"See analysis above for specific recommendations">>,
     confidence |-> narrative.confidence,
     similar_incidents |-> similar,
     nlu_analysis |-> nlu_result]

\* a faulty variant of StoreIncident: the incident is put in front
StoreIncident_front(store, incident_data) == <<incident_data>> \o store

\* a faulty variant of StoreIncident: the incident is appended twice
StoreIncident_twice(store, incident_data) == Append(Append(store, incident_data), incident_data)

\* main.py step 4, in-memory branch: incidents_store.append(incident_data)
StoreIncident(store, incident_data) == Append(store, incident_data)

\* main.py step 5
Step5(store, docs, error_patterns, find_raises) ==
    IF cloudant_available
    THEN search_similar_incidents(cloudant_available, docs, error_patterns, SimilarCap, find_raises)
    ELSE _find_similar_incidents(store, error_patterns)

\* the calls the handler of /analyze makes for one request, in the order of the
\* code: analyze_error_log calls the service first and the two extraction
\* methods after it, inside one try; without NLUAnalyzer the handler runs its
\* own detection loop and nothing else
StepsRun(nlu_outcome, github_outcome) ==
    (IF nlu_outcome = "absent" THEN <<"basic_patterns">>
     ELSE IF nlu_outcome = "raised" THEN <<"nlu.analyze">>
     ELSE <<"nlu.analyze", "extract_code_references", "_extract_error_patterns">>)
    \o (IF github_outcome = "skipped" THEN <<>> ELSE <<"search_and_get_context">>)
    \o <<"narrative", "save", "find_similar">>

\* main.py steps 3 to 5 and the return: no await, so one step of the event loop
Steps3To5(rid, request, nlu_result, nlu_outcome, github_outcome, code_context) ==
    \E wx_call \in (IF watsonx_client THEN WxCalls ELSE {[raises |-> FALSE]}),
       save_raises \in (IF cloudant_available THEN BOOLEAN ELSE {FALSE}),
       find_raises \in (IF cloudant_available THEN BOOLEAN ELSE {FALSE}) :
    \E pos \in (IF cloudant_available /\ ~save_raises
                THEN 1..(Len(cloudant_docs) + 1) ELSE {1}) :
        LET narrative == Narrative(nlu_result, code_context, request.incident_type,
                                   watsonx_client, wx_call)
            incident_id == uuid_draws + 1
            incident_data == IncidentData(incident_id, uuid_draws + 1, request,
                                          narrative, nlu_result)
            store == IF cloudant_available THEN incidents_store
                     ELSE StoreIncident(incidents_store, incident_data)
            docs == save_incident(cloudant_available, cloudant_docs, incident_data,
                                  save_raises, pos)
            error_patterns == Get(nlu_result, "error_patterns", <<>>)
            similar == Step5(store, docs, error_patterns, find_raises)
        IN /\ find_raises => error_patterns # <<>>
           /\ uuid_draws' = uuid_draws + 1
           /\ incidents_store' = store
           /\ cloudant_docs' = docs
           /\ response' = [status |-> 200,
                           body |-> AnalyzeResponse(incident_id, narrative, nlu_result, similar)]
           /\ served' = [rid |-> rid,
                         request |-> request,
                         incident |-> incident_data,
                         code_context |-> code_context,
                         nlu |-> nlu_outcome,
                         github |-> github_outcome,
                         steps |-> StepsRun(nlu_outcome, github_outcome),
                         watsonx |-> IF watsonx_client THEN Outcome(wx_call) ELSE "absent",
                         save |-> IF cloudant_available
                                  THEN Outcome([raises |-> save_raises]) ELSE "memory",
                         find |-> IF cloudant_available
                                  THEN Outcome([raises |-> find_raises]) ELSE "memory"]

Request(error_log, repo_url, github_pat) ==
    [error_log |-> error_log, repo_url |-> repo_url, github_pat |-> github_pat,
     incident_type |-> <<"unknown">>]

NextRid == uuid_draws + Cardinality(inflight) + 1

\* no handler of another endpoint returned in the last step
NoReply == [endpoint |-> "none"]

\* POST /analyze, a handler that reaches its return without suspending: step 2
\* is skipped, or _parse_repo_url raises ValueError before any I/O and the
\* except clause of step 2 prints it
Analyze(error_log, repo_url, github_pat) ==
    /\ budget > 0
    /\ \E nlu_call \in (IF nlu_analyzer THEN NluCalls(error_log) ELSE {[raises |-> FALSE]}) :
        LET request == Request(error_log, repo_url, github_pat)
            nlu_result == Step1(error_log, nlu_call)
            calls == CallsGithub(request, nlu_result)
        IN /\ calls => ~_parse_repo_url(repo_url[1]).ok
           /\ Steps3To5(NextRid, request, nlu_result,
                        IF nlu_analyzer THEN Outcome(nlu_call) ELSE "absent",
                        IF calls THEN "value_error" ELSE "skipped", <<>>)
    /\ budget' = budget - 1
    /\ reply' = NoReply
    /\ UNCHANGED <<nlu_analyzer, watsonx_client, cloudant_available, inflight, extracted>>

\* POST /analyze, a handler up to the await of step 2: the reference parsed and
\* the HTTP request of search_code is in flight
AnalyzeAwait(error_log, repo_url, github_pat) ==
    /\ budget > 0
    /\ Cardinality(inflight) < MaxInFlight
    /\ \E nlu_call \in (IF nlu_analyzer THEN NluCalls(error_log) ELSE {[raises |-> FALSE]}) :
        LET request == Request(error_log, repo_url, github_pat)
            nlu_result == Step1(error_log, nlu_call)
        IN /\ CallsGithub(request, nlu_result)
           /\ _parse_repo_url(repo_url[1]).ok
           /\ inflight' = inflight \cup
                  {[rid |-> NextRid, request |-> request, nlu_result |-> nlu_result,
                    nlu |-> IF nlu_analyzer THEN Outcome(nlu_call) ELSE "absent"]}
    /\ budget' = budget - 1
    /\ reply' = NoReply
    /\ UNCHANGED <<nlu_analyzer, watsonx_client, cloudant_available, incidents_store,
                   cloudant_docs, uuid_draws, response, served, extracted>>

\* the await of step 2 returns (or raises into the except clause), and the
\* handler runs steps 3 to 5
AnalyzeResume(r) ==
    /\ r \in inflight
    /\ \E github_call \in GithubCalls :
        Steps3To5(r.rid, r.request, r.nlu_result, r.nlu, Outcome(github_call),
                  IF github_call.raises THEN <<>> ELSE github_call.context)
    /\ inflight' = inflight \ {r}
    /\ reply' = NoReply
    /\ UNCHANGED <<nlu_analyzer, watsonx_client, cloudant_available, budget, extracted>>

NoResponse == [status |-> 0]
NotServed == [rid |-> 0]
NotExtracted == [log_text |-> <<>>, code_references |-> None, error_patterns |-> None]

\* the state after startup(): each client is constructed or not, by its
\* configuration; nothing is stored in this process
Init ==
    /\ nlu_analyzer \in BOOLEAN
    /\ watsonx_client \in BOOLEAN
    /\ cloudant_available \in BOOLEAN
    /\ incidents_store = <<>>
    /\ cloudant_docs = <<>>
    /\ uuid_draws = 0
    /\ budget = MaxRequests
    /\ inflight = {}
    /\ response = NoResponse
    /\ served = NotServed
    /\ reply = NoReply
    /\ extracted = NotExtracted

Next ==
    \/ \E error_log \in Logs, repo_url \in RepoUrls, github_pat \in Pats :
          Analyze(error_log, repo_url, github_pat)
    \/ \E error_log \in Logs, repo_url \in RepoUrls, github_pat \in Pats :
          AnalyzeAwait(error_log, repo_url, github_pat)
    \/ \E r \in inflight : AnalyzeResume(r)

Spec == Init /\ [][Next]_vars

\* --------------------------------------------- a process with a history
\* the incident that an earlier /analyze request with this log, no repository
\* and a successful enrichment call left in the store
StoredIncident(i, error_log) ==
    LET request == Request(error_log, None, None)
        nlu_result == Step1(error_log, [raises |-> FALSE, result |-> NluAnswer(error_log)])
    IN IncidentData(i, i, request,
                    Narrative(nlu_result, <<>>, request.incident_type, FALSE, [raises |-> FALSE]),
                    nlu_result)

Histories ==
    UNION {{[i \in 1..n |-> StoredIncident(i, logs[i])] : logs \in [1..n -> HistLogs]} : n \in 0..MaxHist}

\* a process without narrative client that has served up to MaxHist requests,
\* and admits one more
InitHist ==
    /\ nlu_analyzer \in BOOLEAN
    /\ watsonx_client = FALSE
    /\ cloudant_available \in BOOLEAN
    /\ \E history \in Histories :
        /\ incidents_store = IF cloudant_available THEN <<>> ELSE history
        /\ cloudant_docs = IF cloudant_available THEN history ELSE <<>>
        /\ uuid_draws = Len(history)
    /\ budget = 1
    /\ inflight = {}
    /\ response = NoResponse
    /\ served = NotServed
    /\ reply = NoReply
    /\ extracted = NotExtracted

SpecHist == InitHist /\ [][Next]_vars

\* a process with no enrichment and no narrative client configured
InitDegraded ==
    /\ Init
    /\ ~nlu_analyzer
    /\ ~watsonx_client

SpecDegraded == InitDegraded /\ [][Next]_vars

\* ------------------------------------------------------ the other endpoints
\* list[start:] of Python, for any integer start
SliceFrom(list, start) ==
    LET n == Len(list)
        from == IF start < 0
                THEN (IF n + start > 0 THEN n + start ELSE 0)
                ELSE (IF start < n THEN start ELSE n)
    IN SubSeq(list, from + 1, n)

\* CloudantClient.get_incident: the first document post_find returns for the
\* selector incident_id == id, or None
cloudant_get_incident(available, docs, incident_id, call_raises) ==
    IF ~available \/ call_raises THEN None
    ELSE LET found == SelectSeq(docs, LAMBDA doc : doc.incident_id = incident_id)
         IN IF found # <<>> THEN Some(found[1]) ELSE None

\* CloudantClient.list_incidents: the summaries of the rows of
\* post_all_docs(limit=limit)
cloudant_list_incidents(available, docs, limit, call_raises) ==
    IF ~available \/ call_raises THEN <<>>
    ELSE LET rows == Take(docs, limit)
         IN [i \in 1..Len(rows) |->
               [id |-> rows[i].incident_id,
                incident_type |-> rows[i].incident_type,
                timestamp |-> rows[i].timestamp,
                severity |-> rows[i].severity]]

\* the values of `limit` a caller sends: any int is accepted; 50 is the default
Limits == {-1, 0, 1, 50}

\* GET /incidents/{incident_id}
GetIncident(incident_id) ==
    /\ \E call_raises \in (IF cloudant_available THEN BOOLEAN ELSE {FALSE}) :
        LET incident == cloudant_get_incident(cloudant_available, cloudant_docs,
                                              incident_id, call_raises)
            stored == SelectSeq(incidents_store,
                                LAMBDA inc : inc.incident_id = incident_id)
        IN reply' = IF cloudant_available /\ incident # None
                    THEN [endpoint |-> "get_incident", status |-> 200, body |-> incident[1]]
                    ELSE IF stored # <<>>
                    THEN [endpoint |-> "get_incident", status |-> 200, body |-> stored[1]]
                    ELSE [endpoint |-> "get_incident", status |-> 404]
    /\ UNCHANGED <<nlu_analyzer, watsonx_client, cloudant_available, incidents_store,
                   cloudant_docs, uuid_draws, budget, inflight, response, served,
                   extracted>>

\* GET /incidents?limit=...
ListIncidents(limit) ==
    /\ \E call_raises \in (IF cloudant_available
                           THEN (IF limit < 0 THEN {TRUE} ELSE BOOLEAN) ELSE {FALSE}) :
        LET incidents == cloudant_list_incidents(cloudant_available, cloudant_docs,
                                                 limit, call_raises)
        IN reply' = IF cloudant_available
                    THEN [endpoint |-> "list_incidents", status |-> 200, limit |-> limit,
                          body |-> [incidents |-> incidents,
                                    total |-> Len(incidents),
                                    storage |-> "cloudant"]]
                    ELSE [endpoint |-> "list_incidents", status |-> 200, limit |-> limit,
                          body |-> [incidents |-> IF incidents_store # <<>>
                                                  THEN SliceFrom(incidents_store, 0 - limit)
                                                  ELSE <<>>,
                                    total |-> Len(incidents_store),
                                    storage |-> "in-memory"]]
    /\ UNCHANGED <<nlu_analyzer, watsonx_client, cloudant_available, incidents_store,
                   cloudant_docs, uuid_draws, budget, inflight, response, served,
                   extracted>>

\* GET /health (the wall-clock timestamp of the body is left out).  Without a
\* usable Cloudant client the status is "inactive" when get_cloudant_client
\* raised at startup and "not_configured" when it returned an unavailable client.
Health ==
    /\ \E cloudant_status \in (IF cloudant_available THEN {"active", "error"}
                               ELSE {"inactive", "not_configured"}) :
        reply' = [endpoint |-> "health", status |-> 200,
                  body |-> [status |-> "healthy",
                            services |->
                              [nlu |-> IF nlu_analyzer THEN "active" ELSE "inactive",
                               watsonx |-> IF watsonx_client THEN "active" ELSE "inactive",
                               github |-> IF github_client THEN "available" ELSE "inactive",
                               cloudant |-> cloudant_status]]]
    /\ UNCHANGED <<nlu_analyzer, watsonx_client, cloudant_available, incidents_store,
                   cloudant_docs, uuid_draws, budget, inflight, response, served,
                   extracted>>

\* main.py: the literal list of the /analyze-log-only fallback
quick_patterns == <<
    <<"E","x","c","e","p","t","i","o","n">>,
    <<"E","r","r","o","r">>,
    <<"F","a","i","l","e","d">>,
    <<"T","i","m","e","o","u","t">>,
    <<"5","0","0">>,
    <<"4","0","4">> >>

\* a faulty variant of QuickFallback: the detection loop is lost
QuickFallback_nopatterns(error_log) ==
    [quick_summary |-> [error_patterns |-> <<>>,
                        top_keywords |-> Take(split(error_log), QuickKeywords),
                        categories |-> <<>>],
     message |-> <<"NLU service not available, using basic analysis">>]

\* /analyze-log-only without NLUAnalyzer
QuickFallback(error_log) ==
    [quick_summary |-> [error_patterns |-> DetectIn(quick_patterns, error_log),
                        top_keywords |-> Take(split(error_log), QuickKeywords),
                        categories |-> <<>>],
     message |-> <<"NLU service not available, using basic analysis">>]

\* /analyze-log-only with NLUAnalyzer
QuickAnalysis(result) ==
    LET keywords == Take(Get(result, "keywords", <<>>), QuickKeywords)
        categories == Get(result, "categories", <<>>)
    IN [analysis |-> result,
        quick_summary |->
          [error_patterns |-> Get(result, "error_patterns", <<>>),
           top_keywords |-> [i \in 1..Len(keywords) |-> keywords[i].text],
           categories |-> [i \in 1..Len(categories) |-> Get(categories[i], "label", None)]]]

\* POST /analyze-log-only: no await, one step of the event loop
AnalyzeLogOnly(error_log) ==
    /\ \E nlu_call \in (IF nlu_analyzer THEN NluCalls(error_log) ELSE {[raises |-> FALSE]}) :
        reply' = [endpoint |-> "analyze_log_only", status |-> 200, error_log |-> error_log,
                  body |-> IF ~nlu_analyzer THEN QuickFallback(error_log)
                           ELSE QuickAnalysis(analyze_error_log(error_log, nlu_call))]
    /\ UNCHANGED <<nlu_analyzer, watsonx_client, cloudant_available, incidents_store,
                   cloudant_docs, uuid_draws, budget, inflight, response, served,
                   extracted>>

\* the logs sent to /analyze-log-only: two of /analyze, and one with two
\* status codes
LogCodes == <<"4","0","4"," ","5","0","0">>
QuickLogs == {LogFatal, LogQuiet, LogCodes}

\* the /analyze requests sent while the other endpoints are in use
ApiLogs == {LogTimeout, LogFatal}
ApiRepoUrls == {None, Some(GoodRepoUrl)}
ApiPats == {Some(<<"t","o","k">>)}

\* every endpoint of the service
NextApi ==
    \/ \E error_log \in ApiLogs, repo_url \in ApiRepoUrls, github_pat \in ApiPats :
          Analyze(error_log, repo_url, github_pat)
    \/ \E error_log \in ApiLogs, repo_url \in ApiRepoUrls, github_pat \in ApiPats :
          AnalyzeAwait(error_log, repo_url, github_pat)
    \/ \E r \in inflight : AnalyzeResume(r)
    \/ \E incident_id \in 1..(uuid_draws + 1) : GetIncident(incident_id)
    \/ \E limit \in Limits : ListIncidents(limit)
    \/ Health
    \/ \E error_log \in QuickLogs : AnalyzeLogOnly(error_log)

\* a process that keeps its incidents in memory and has no narrative client
InitApi ==
    /\ Init
    /\ ~watsonx_client
    /\ ~cloudant_available

SpecApi == InitApi /\ [][NextApi]_vars

\* ------------------------------- the extraction methods of NLUAnalyzer alone
MaxRefs == 11         \* references of one grammar in a generated log text

\* the k-th "Class.method" reference and the k-th "file.ext:line" reference
ClassMethodToken(k) == <<"A", LowerChars[k], ".", "a", LowerChars[k]>>
FileLineToken(k) == <<LowerChars[k], ".", "c", ":", "1">>

\* a log text with k class references and m file references, the first class
\* reference written once more at the end when `again`
RefText(k, m, again) ==
    Join([i \in 1..k |-> ClassMethodToken(i)]
         \o [i \in 1..m |-> FileLineToken(i)]
         \o (IF again /\ k > 0 THEN <<ClassMethodToken(1)>> ELSE <<>>), <<" ">>)

RefTexts == {RefText(k, m, again) : k \in 0..MaxRefs, m \in 0..MaxRefs, again \in BOOLEAN}

\* one frame of a Java, a Python and a JavaScript stack trace
JavaFrame ==
    <<"a","t"," ","c","o","m",".","a","p","p",".","O","r","d","e","r","S",
      "e","r","v","i","c","e",".","p","r","o","c","e","s","s","(","O","r",
      "d","e","r","S","e","r","v","i","c","e",".","j","a","v","a",":","4",
      "2",")">>
PythonFrame ==
    <<"F","i","l","e"," ","\"","/","s","r","v","/","a","p","p","/","u","t",
      "i","l",".","p","y","\"",","," ","l","i","n","e"," ","3",","," ","i",
      "n"," ","r","u","n">>
JsFrame ==
    <<"a","t"," ","h","a","n","d","l","e","r"," ","(","s","r","c","/","a",
      "-","b",".","t","s","x",":","1","0",":","5",")">>
Frames == {JavaFrame, PythonFrame, JsFrame}

\* words of error messages, some in the case of the vocabulary and some not
PatternWords == {
    <<"T","i","m","e","o","u","t">>,
    <<"t","i","m","e","o","u","t">>,
    <<"5","0","0">>,
    <<"F","A","T","A","L">>,
    <<"K","e","y","E","r","r","o","r">>,
    <<"c","o","n","n","e","c","t","i","o","n"," ","r","e","f","u","s","e","d">>,
    <<"o","k">> }

\* one part, or two different parts on two lines
OneOrTwo(parts) ==
    parts \cup {pair[1] \o <<"\n">> \o pair[2] :
                    pair \in {p \in parts \X parts : p[1] # p[2]}}

ExtractTexts == RefTexts \cup OneOrTwo(Frames) \cup OneOrTwo(PatternWords)

\* analyzer.extract_code_references(log_text)
ExtractCodeReferences ==
    /\ extracted' = [extracted EXCEPT
                       !.code_references = Some(extract_code_references(extracted.log_text))]
    /\ UNCHANGED <<nlu_analyzer, watsonx_client, cloudant_available, incidents_store,
                   cloudant_docs, uuid_draws, budget, inflight, response, served, reply>>

\* analyzer._extract_error_patterns(log_text)
ExtractErrorPatterns ==
    /\ extracted' = [extracted EXCEPT
                       !.error_patterns = Some(_extract_error_patterns(extracted.log_text))]
    /\ UNCHANGED <<nlu_analyzer, watsonx_client, cloudant_available, incidents_store,
                   cloudant_docs, uuid_draws, budget, inflight, response, served, reply>>

\* an NLUAnalyzer object and a log text; no request is admitted
InitExtract ==
    /\ nlu_analyzer = TRUE
    /\ watsonx_client = FALSE
    /\ cloudant_available = FALSE
    /\ incidents_store = <<>>
    /\ cloudant_docs = <<>>
    /\ uuid_draws = 0
    /\ budget = 0
    /\ inflight = {}
    /\ response = NoResponse
    /\ served = NotServed
    /\ reply = NoReply
    /\ \E log_text \in ExtractTexts :
          extracted = [log_text |-> log_text, code_references |-> None,
                       error_patterns |-> None]

NextExtract ==
    \/ ExtractCodeReferences
    \/ ExtractErrorPatterns

SpecExtract == InitExtract /\ [][NextExtract]_vars

\* ================================================================ claims
Answered == response.status = 200
Hits == response.body.similar_incidents
Query == response.body.evidence
\* the history the correlation step of the last request read
Stored == IF cloudant_available THEN cloudant_docs ELSE incidents_store
Overlapping(incident, patterns) == Elems(PatternsOf(incident)) \cap Elems(patterns) # {}
Malformed(repo_url) == Truthy(repo_url) /\ ~_parse_repo_url(repo_url[1]).ok

\* C1: the similar_incidents of an /analyze response never contain the incident
\* id that the same request has just created.
C1_NoSelfMatch ==
    Answered => \A i \in 1..Len(Hits) : Hits[i].id # response.body.incident_id

\* C2: when the write to Cloudant raises, the request ends in a failure visible
\* to the caller; a success response never carries the id of an incident that
\* is not in the database.
C2_PersistFailureSurfaces ==
    /\ (served.rid # 0 /\ served.save = "raised") => response.status # 200
    /\ (Answered /\ cloudant_available) =>
          \E k \in 1..Len(cloudant_docs) :
              cloudant_docs[k].incident_id = response.body.incident_id

\* C3: when the enrichment call fails, the evidence of the response and the
\* error_patterns of the stored incident are still the patterns that detection
\* yields on the log text when the call succeeds.
C3_PatternsSurviveEnrichmentFailure ==
    (Answered /\ served.nlu = "raised") =>
        /\ response.body.evidence = _extract_error_patterns(served.request.error_log)
        /\ PatternsOf(served.incident) = _extract_error_patterns(served.request.error_log)

\* C4: every /analyze response carries a non-empty root_cause, whether the
\* narrative client is absent, succeeds or fails.
C4_NarrativeNeverEmpty ==
    Answered => response.body.root_cause # <<>>

\* C5: a failed narrative call gives the outcome of the unconfigured client:
\* the template narrative, severity "Medium" and confidence 0.5.
C5_FailureEqualsFallback ==
    (Answered /\ served.watsonx = "raised") =>
        /\ response.body.root_cause = TemplateNarrative(response.body.nlu_analysis)
        /\ response.body.severity = Medium
        /\ response.body.confidence = 50

\* C6: the number of similarity hits of a response never exceeds the limit 5,
\* with the in-memory matcher and with the Cloudant search.
C6_HitsWithinLimit ==
    Answered => Len(Hits) <= SimilarCap

\* C6 happens: a response with 5 hits from the in-memory store, which holds more
\* than 5 incidents overlapping the query
C6_Witness ==
    /\ Answered /\ ~cloudant_available
    /\ Len(Hits) = SimilarCap
    /\ Cardinality({k \in 1..Len(incidents_store) :
                       Overlapping(incidents_store[k], Query)}) > SimilarCap

\* C7: every similarity hit refers to a stored incident whose error patterns
\* share an element with the query list; an empty query list yields no hit.
C7_HitsOverlapQuery ==
    Answered =>
        /\ \A i \in 1..Len(Hits) :
              \E k \in 1..Len(Stored) :
                  /\ Stored[k].incident_id = Hits[i].id
                  /\ Overlapping(Stored[k], Query)
        /\ Query = <<>> => Hits = <<>>

\* C7 happens: a response with hits, while the store also holds an incident with
\* patterns of its own that shares none with the query
C7_Witness ==
    /\ Answered
    /\ Hits # <<>>
    /\ \E k \in 1..Len(Stored) :
          PatternsOf(Stored[k]) # <<>> /\ ~Overlapping(Stored[k], Query)

\* C8: the matching_pattern of every hit is the first pattern, in the order of
\* the query list, that the hit incident's own pattern list contains.
C8_FirstQueryPattern ==
    Answered =>
        \A i \in 1..Len(Hits) : \A k \in 1..Len(Stored) :
            Stored[k].incident_id = Hits[i].id =>
                \E n \in 1..Len(Query) :
                    /\ Query[n] = Hits[i].matching_pattern
                    /\ Query[n] \in Elems(PatternsOf(Stored[k]))
                    /\ \A m \in 1..(n - 1) : Query[m] \notin Elems(PatternsOf(Stored[k]))

\* C8 happens: a hit on an earlier incident whose matching_pattern is not the
\* head of the query list, because the incident lacks the head
C8_Witness ==
    /\ Answered
    /\ \E i \in 1..Len(Hits) :
          /\ Hits[i].id # response.body.incident_id
          /\ Hits[i].matching_pattern # Query[1]

C10_MalformedRejected ==
    (served.rid # 0 /\ Malformed(served.request.repo_url)) =>
        /\ response.status \in 400..499
        /\ "incident" \notin DOMAIN served

\* C11: for any log text, each of the four lists that extract_code_references
\* returns (files, classes, methods, search_terms) has at most 10 entries and
\* holds no entry twice.
C11_ListsCappedAndDistinct ==
    extracted.code_references # None =>
        LET references == extracted.code_references[1]
        IN \A key \in {"files", "classes", "methods", "search_terms"} :
              /\ Len(references[key]) <= 10
              /\ \A i, j \in 1..Len(references[key]) :
                    i < j => references[key][i] # references[key][j]

\* C11 happens: a text with more than 10 different class references, one of
\* them written twice, and more than 10 file references, for which the lists
\* returned have 10 entries
C11_Witness ==
    /\ extracted.code_references # None
    /\ LET matches == finditer(class_method_pattern, extracted.log_text)
       IN /\ Cardinality({matches[i] : i \in 1..Len(matches)}) > 10
          /\ \E i, j \in 1..Len(matches) : i < j /\ matches[i] = matches[j]
    /\ Len(finditer(file_line_pattern, extracted.log_text)) > 10
    /\ Len(extracted.code_references[1].search_terms) = 10
    /\ Len(extracted.code_references[1].files) = 10

\* the last step was a listing of the in-memory store
ListedNow ==
    /\ reply.endpoint = "list_incidents"
    /\ reply.body.storage = "in-memory"

\* C12: the in-memory listing with limit n returns at most n incidents, and
\* they are the n most recently appended ones (all of them when n exceeds the
\* size of the store), for every n, n = 0 included (stated here for n >= 0).
C12_ListReturnsLastN ==
    (ListedNow /\ reply.limit >= 0) =>
        LET n == reply.limit
            size == Len(incidents_store)
            kept == IF n < size THEN n ELSE size
        IN /\ Len(reply.body.incidents) <= n
           /\ reply.body.incidents = SubSeq(incidents_store, size - kept + 1, size)

\* C13: in in-memory mode the stored incidents are append-only and immutable:
\* every step of /analyze, get, list, health (and /analyze-log-only) leaves
\* each incident already in the store at its position with its content, and a
\* step of an endpoint other than /analyze leaves the store as it is.
C13_HistoryAppendOnly ==
    [][/\ Len(incidents_store') >= Len(incidents_store)
       /\ SubSeq(incidents_store', 1, Len(incidents_store)) = incidents_store
       /\ (reply' # NoReply => incidents_store' = incidents_store)]_vars

\* C13 happens: two incidents were stored one after the other, and the first
\* one was then read back by its id
C13_Witness ==
    /\ ~cloudant_available
    /\ Len(incidents_store) = 2
    /\ reply.endpoint = "get_incident" /\ reply.status = 200
    /\ reply.body = incidents_store[1]

\* the positions, in the in-memory store, of the incidents of the last-20
\* window that overlap the query
OverlappingInWindow ==
    {k \in 1..Len(incidents_store) :
        /\ k > Len(incidents_store) - 20
        /\ Overlapping(incidents_store[k], Query)}

\* C14: when more than 5 incidents of the last-20 window overlap the query, the
\* hits of the in-memory matcher are the 5 most recent overlapping incidents,
\* newest first.
C14_MostRecentFirst ==
    (Answered /\ ~cloudant_available /\ Cardinality(OverlappingInWindow) > 5) =>
        /\ Len(Hits) = 5
        /\ \A i \in 1..Len(Hits) :
              \E k \in OverlappingInWindow :
                  /\ Cardinality({j \in OverlappingInWindow : j > k}) = i - 1
                  /\ Hits[i].id = incidents_store[k].incident_id

\* the position of a call among the calls made for the last request, 0 if it
\* was not made
StepAt(name) ==
    IF \E i \in 1..Len(served.steps) : served.steps[i] = name
    THEN CHOOSE i \in 1..Len(served.steps) : served.steps[i] = name
    ELSE 0

\* C15: within every /analyze request, pattern detection and code-reference
\* extraction run, and they run before the call to the enrichment service, which
\* runs before the correlation step; whether the enrichment client is absent,
\* succeeds or fails.  (The detection loop of the handler counts as detection.)
C15_ExtractionFirst ==
    served.rid # 0 =>
        LET detection == IF StepAt("_extract_error_patterns") # 0
                         THEN StepAt("_extract_error_patterns")
                         ELSE StepAt("basic_patterns")
        IN /\ detection # 0
           /\ StepAt("extract_code_references") # 0
           /\ StepAt("find_similar") # 0
           /\ detection < StepAt("find_similar")
           /\ StepAt("nlu.analyze") # 0 =>
                 /\ detection < StepAt("nlu.analyze")
                 /\ StepAt("extract_code_references") < StepAt("nlu.analyze")
                 /\ StepAt("nlu.analyze") < StepAt("find_similar")

\* the patterns of the two fallbacks, when the last step ran one: those of the
\* /analyze response, those of the /analyze-log-only reply
FallbackRan ==
    /\ ~nlu_analyzer
    /\ (Answered /\ reply = NoReply) \/ reply.endpoint = "analyze_log_only"
FallbackPatterns ==
    IF reply.endpoint = "analyze_log_only"
    THEN reply.body.quick_summary.error_patterns
    ELSE response.body.evidence
FallbackLog ==
    IF reply.endpoint = "analyze_log_only" THEN reply.error_log
    ELSE served.request.error_log

SixEntries ==
    <<error_indicators[1], error_indicators[2], error_indicators[3],
      error_indicators[4], error_indicators[9], error_indicators[8]>>

SuppliesBoth == Truthy(served.request.repo_url) /\ Truthy(served.request.github_pat)

\* C17: search_and_get_context is called during /analyze only if the request
\* supplies both a repository URL and a token; in every other case it is not
\* called, the code context passed on is "", and the request completes normally.
C17_ContextOnlyWithBoth ==
    served.rid # 0 =>
        /\ served.github # "skipped" => SuppliesBoth
        /\ ~SuppliesBoth =>
              /\ served.github = "skipped"
              /\ served.code_context = <<>>
              /\ response.status = 200
              /\ response.body.incident_id = served.incident.incident_id

\* C17 happens: a request with URL and token for which the call returned code,
\* in a process that stored an earlier request
C17_Witness ==
    /\ served.rid # 0 /\ SuppliesBoth
    /\ served.github = "ok" /\ served.code_context # <<>>
    /\ uuid_draws > 1

\* C18: for the single Java frame
\* "at com.app.OrderService.process(OrderService.java:42)" extract_code_references
\* returns exactly files = ["OrderService.java"], classes = ["OrderService"],
\* methods = ["process"], search_terms = ["OrderService process"]; the other
\* grammars add nothing.
C18_JavaFrameReferences ==
    (extracted.log_text = JavaFrame /\ extracted.code_references # None) =>
        LET file == <<"O","r","d","e","r","S","e","r","v","i","c","e",".","j","a","v","a">>
            class == <<"O","r","d","e","r","S","e","r","v","i","c","e">>
            method == <<"p","r","o","c","e","s","s">>
        IN extracted.code_references[1] =
               [files |-> <<file>>,
                classes |-> <<class>>,
                methods |-> <<method>>,
                search_terms |-> <<class \o <<" ">> \o method>>]

\* C19: for any log text, _extract_error_patterns returns a duplicate-free
\* subsequence of the vocabulary, in vocabulary order, that contains exactly the
\* entries whose lowercase form occurs in the lowercased text; and a further
\* run on the same text returns the same list.
C19_DetectorFollowsVocabulary ==
    /\ [](extracted.error_patterns # None =>
            LET patterns == extracted.error_patterns[1]
                vocabulary == 1..Len(error_indicators)
            IN /\ \A i, j \in 1..Len(patterns) :
                     i < j => \E m, n \in vocabulary :
                                 /\ m < n
                                 /\ error_indicators[m] = patterns[i]
                                 /\ error_indicators[n] = patterns[j]
               /\ \A i \in 1..Len(patterns) :
                     \E m \in vocabulary : error_indicators[m] = patterns[i]
               /\ \A m \in vocabulary :
                     (\E i \in 1..Len(patterns) : patterns[i] = error_indicators[m])
                     <=> Contains(lower(error_indicators[m]), lower(extracted.log_text)))
    /\ [][extracted.error_patterns # None =>
             extracted'.error_patterns = extracted.error_patterns]_vars

\* C19 happens: the text "500\ntimeout", in which 500 comes first and timeout
\* is in lower case, gives Timeout, 500
C19_Witness ==
    /\ extracted.log_text = <<"5","0","0","\n","t","i","m","e","o","u","t">>
    /\ extracted.error_patterns = Some(<<error_indicators[4], error_indicators[9]>>)

\* a complete incident record: every field of incident_data
Complete(incident) ==
    DOMAIN incident = {"incident_id", "timestamp", "error_log", "repo_url",
                       "incident_type", "severity", "confidence", "nlu_analysis",
                       "root_cause_analysis"}

\* C20: under any interleaving of /analyze requests and get/list readers in
\* in-memory mode, the store holds exactly one complete record per request that
\* has passed its persist step (none for a request still suspended before it,
\* none lost, none twice), and what a reader returns are complete records of
\* the store.
C20_AtomicAppends ==
    ~cloudant_available =>
        /\ \A k \in 1..Len(incidents_store) :
              /\ Complete(incidents_store[k])
              /\ incidents_store[k].incident_id = k
        /\ Len(incidents_store) = uuid_draws
        /\ Len(incidents_store) + Cardinality(inflight) + budget = MaxRequests
        /\ (reply.endpoint = "get_incident" /\ reply.status = 200) =>
              \E k \in 1..Len(incidents_store) : reply.body = incidents_store[k]
        /\ reply.endpoint = "list_incidents" =>
              \A i \in 1..Len(reply.body.incidents) :
                  \E k \in 1..Len(incidents_store) :
                      reply.body.incidents[i] = incidents_store[k]

\* C20 happens: a request is suspended in its await, a later request has
\* persisted its incident meanwhile, and a reader lists the store
C20_Witness ==
    /\ ~cloudant_available
    /\ \E r \in inflight : r.rid < served.rid
    /\ reply.endpoint = "list_incidents"
    /\ reply.body.incidents # <<>>

====
